---- MODULE Spec2Model ----
(***************************************************************************)
(* Orchestrator of the floating EMR helper agent (src/src/main.ts) and its *)
(* session-field merge (src/src/services/sessionFieldExtractor.ts).        *)
(*                                                                         *)
(* Three specifications share the variables below:                         *)
(*   Spec       the agent state: capture/merge, navigation, paste          *)
(*   MergeSpec  mergeSessionFields as a pure function on bounded inputs    *)
(*   PanelSpec  panel visibility, window push/restore, window watcher      *)
(* Text is a sequence of one-character strings, so that substring          *)
(* containment, trimming, tokenising and lengths are computed as the code  *)
(* computes them.                                                          *)
(***************************************************************************)
EXTENDS Naturals, Integers, Sequences, FiniteSets, Bags, TLC

VARIABLES
  agentState,      \* main.ts:35  the AgentState object
  lastBroadcast,   \* the state last sent by broadcastAgentState
  clipboard,       \* the OS clipboard text
  pastes,          \* bag of pasteCurrentField calls (in flight or ended)
  captures,        \* bag of handleCaptureAndEnrich calls (in flight or ended)
  mExisting, mIncoming, mOnce, mTwice, mPc,  \* MergeSpec: inputs and results
  mainWindow,            \* main.ts:23  TRUE while the panel window exists
  panelShown,            \* the panel window is shown (show / hide)
  iconShown,             \* the floating icon window is shown
  isPanelVisible,        \* main.ts:28
  savedWindowBounds,     \* main.ts:29
  savedHeidiBounds,      \* main.ts:30
  savedEmrBounds,        \* main.ts:31
  hasPushedWindow,       \* main.ts:32
  linkedEmrWindow,       \* main.ts:42
  lastKnownHeidiContext, \* main.ts:44
  windows,               \* the OS windows of the other applications
  frontApp,              \* the frontmost application process
  tasks,                 \* bag of togglePanel / watcher / link calls in flight
  scriptFailures,        \* number of osascript runs that were rejected
  panelCalls             \* number of toggle / watcher / link calls begun

agentVars == <<agentState, lastBroadcast, clipboard, pastes, captures>>
mergeVars == <<mExisting, mIncoming, mOnce, mTwice, mPc>>
panelVars == <<mainWindow, panelShown, iconShown, isPanelVisible,
               savedWindowBounds, savedHeidiBounds, savedEmrBounds,
               hasPushedWindow, linkedEmrWindow, lastKnownHeidiContext,
               windows, frontApp, tasks, scriptFailures, panelCalls>>
vars == <<agentVars, mergeVars, panelVars>>

----------------------------------------------------------------------------
(* Bounds *)

\* Total number of asynchronous calls (paste + capture) started in a run.
MaxCalls == 3
\* MergeSpec: total number of fields in the existing and incoming lists.
MaxFields == 3

----------------------------------------------------------------------------
(* Text helpers (JavaScript string semantics) *)

Undefined == "undefined"

SetMin(S) == CHOOSE x \in S : \A y \in S : x <= y
SetMax(S) == CHOOSE x \in S : \A y \in S : x >= y

\* String.prototype.toLowerCase on the modelled alphabet
LowerChar(c) == IF c = "A" THEN "a" ELSE IF c = "B" THEN "b" ELSE c
ToLowerCase(s) == [i \in 1..Len(s) |-> LowerChar(s[i])]

\* \s of the regular expression and of String.prototype.trim
IsSpace(c) == c \in {" ", "\n"}

Trim(s) ==
  LET idx == {i \in 1..Len(s) : ~IsSpace(s[i])}
  IN IF idx = {} THEN <<>> ELSE SubSeq(s, SetMin(idx), SetMax(idx))

\* String.prototype.includes
Includes(s, t) ==
  \E i \in 0..(Len(s) - Len(t)) : SubSeq(s, i + 1, i + Len(t)) = t

\* new Set(str.toLowerCase().split(/\s+/).filter(t => t.length > 0))
Tokens(str) ==
  LET s == ToLowerCase(str)
  IN { SubSeq(s, i, j) : <<i, j>> \in
         { p \in (1..Len(s)) \X (1..Len(s)) :
             /\ p[1] <= p[2]
             /\ \A k \in p[1]..p[2] : ~IsSpace(s[k])
             /\ (p[1] = 1 \/ IsSpace(s[p[1] - 1]))
             /\ (p[2] = Len(s) \/ IsSpace(s[p[2] + 1])) } }

\* The similarity as the fraction <<numerator, denominator>>; 0 (as <<0, 1>>)
\* when the union is empty.
jaccardSimilarity(str1, str2) ==
  LET tokens1 == Tokens(str1)
      tokens2 == Tokens(str2)
      intersection == tokens1 \cap tokens2
      union == tokens1 \cup tokens2
  IN IF Cardinality(union) = 0 THEN <<0, 1>>
     ELSE <<Cardinality(intersection), Cardinality(union)>>

\* similarity >= OVERLAP_THRESHOLD (0.5) is 2 * numerator >= denominator
valuesOverlap(value1, value2) ==
  LET v1Lower == Trim(ToLowerCase(value1))
      v2Lower == Trim(ToLowerCase(value2))
      similarity == jaccardSimilarity(value1, value2)
  IN \/ /\ Len(v1Lower) > 0
        /\ Len(v2Lower) > 0
        /\ (Includes(v1Lower, v2Lower) \/ Includes(v2Lower, v1Lower))
     \/ 2 * similarity[1] >= similarity[2]

----------------------------------------------------------------------------
(* mergeSessionFields *)

Field(id, label, value) == [id |-> id, label |-> label, value |-> value]

Separator == <<"\n", "\n">>

\* existingById.get(id): Map.set keeps the last field set under a key
HasId(fields, id) == \E i \in 1..Len(fields) : fields[i].id = id
ExistingById(existing, id) ==
  existing[SetMax({i \in 1..Len(existing) : existing[i].id = id})]

\* merged.findIndex(f => f.id === id): the first match, 0 for -1
FindIndex(merged, id) ==
  LET idx == {i \in 1..Len(merged) : merged[i].id = id}
  IN IF idx = {} THEN 0 ELSE SetMin(idx)

\* incomingLength > existingLength * 0.5 && !valuesOverlap(...)
IsContinuation(existingField, incomingField) ==
  /\ 2 * Len(incomingField.value) > Len(existingField.value)
  /\ ~valuesOverlap(existingField.value, incomingField.value)

\* One iteration of the loop over incoming. A field whose id is no key of
\* existingById is appended; the map is not updated while looping.
MergeStep(merged, existing, incomingField) ==
  IF ~HasId(existing, incomingField.id)
  THEN Append(merged, incomingField)
  ELSE LET existingField == ExistingById(existing, incomingField.id)
       IN IF valuesOverlap(existingField.value, incomingField.value)
          THEN merged
          ELSE IF IsContinuation(existingField, incomingField)
          THEN LET updatedField ==
                     [existingField EXCEPT
                        !.value = existingField.value \o Separator
                                    \o incomingField.value]
                   index == FindIndex(merged, incomingField.id)
               IN IF index # 0
                  THEN [merged EXCEPT ![index] = updatedField]
                  ELSE merged
          ELSE merged

RECURSIVE MergeLoop(_, _, _)
MergeLoop(merged, existing, incoming) ==
  IF incoming = <<>> THEN merged
  ELSE MergeLoop(MergeStep(merged, existing, Head(incoming)),
                 existing, Tail(incoming))

mergeSessionFields(existing, incoming) == MergeLoop(existing, existing, incoming)

UniqueIds(fields) ==
  \A i, j \in 1..Len(fields) : fields[i].id = fields[j].id => i = j

----------------------------------------------------------------------------
(* Agent state: updateAgentState / broadcastAgentState *)

AgentStateInit ==
  [ status |-> "idle", sessionId |-> Undefined, sessionFields |-> <<>>,
    currentIndex |-> 0, lastError |-> Undefined ]

\* agentState = { ...agentState, ...partial }
Spread(state, partial) ==
  [k \in DOMAIN state |-> IF k \in DOMAIN partial THEN partial[k] ELSE state[k]]

\* updateAgentState: replace the object, then broadcast it
UpdateAgentState(partial) ==
  /\ agentState' = Spread(agentState, partial)
  /\ lastBroadcast' = agentState'

NoFieldsError == "No session fields available"
NoValueError == "Selected field has no value"
KeystrokeError == "Failed to type field"
CaptureError == "Screen capture failed"
ExtractionError == "Session field extraction failed"

\* getSessionFieldsOrThrow throws exactly when there are no fields
SessionFieldsThrows == Len(agentState.sessionFields) = 0

\* Mutation: the index is not clamped.
clampIndexUnclamped(index, length) == index

clampIndex(index, length) ==
  IF length = 0 THEN 0
  ELSE IF index < 0 THEN 0
  ELSE IF index > length - 1 THEN length - 1
  ELSE index

\* selectPreviousField / selectNextField: delta is -1 / +1
SelectField(delta) ==
  /\ IF SessionFieldsThrows
     THEN UpdateAgentState([status |-> "error", lastError |-> NoFieldsError])
     ELSE UpdateAgentState(
            [currentIndex |-> clampIndex(agentState.currentIndex + delta,
                                         Len(agentState.sessionFields))])
  /\ UNCHANGED <<clipboard, pastes, captures, mergeVars, panelVars>>

selectPreviousField == SelectField(-1)
selectNextField == SelectField(1)

clearSession ==
  /\ UpdateAgentState([ status |-> "idle", sessionId |-> Undefined,
                        sessionFields |-> <<>>, currentIndex |-> 0,
                        lastError |-> Undefined ])
  /\ UNCHANGED <<clipboard, pastes, captures, mergeVars, panelVars>>

----------------------------------------------------------------------------
(* Calls in flight. A call is a record in a bag; a call that has ended stays *)
(* in the bag with its outcome.                                              *)

ReplaceInBag(bag, old, new) == (bag (-) SetToBag({old})) (+) SetToBag({new})

CallsStarted == BagCardinality(pastes) + BagCardinality(captures)

----------------------------------------------------------------------------
(* pasteCurrentField *)

\* pc: "settle"  awaiting the 200 ms timer after the clipboard write
\*     "focus"   awaiting the 400 ms timer
\*     "key"     awaiting pressCommandV
\*     "landed"  awaiting the 500 ms timer after the keystroke
\*     "restore" in the finally block, awaiting its 200 ms timer
\*     "done" returned normally, "returned" returned early, "threw" rejected
\* previousText is the empty text until the clipboard has been read; wrote
\* tells whether the field value was written to the clipboard; restored is
\* the list of texts the finally block wrote back (none, or one).
PasteCall(pc, previousText, wrote, keyFailed, restored) ==
  [ pc |-> pc, previousText |-> previousText, wrote |-> wrote,
    keyFailed |-> keyFailed, restored |-> restored ]

PasteInFlight(c) == c.pc \in {"settle", "focus", "key", "landed", "restore"}

\* Mutation: a paste that cannot start reports nothing.
PasteRejectedSilently(error) == [lastError |-> agentState.lastError]

\* Lines 152-153, 161-162 and 215: the update when there is nothing to paste
PasteRejected(error) == [status |-> "error", lastError |-> error]

\* Lines 148-182: everything up to the first await.
PasteStart ==
  /\ CallsStarted < MaxCalls
  /\ IF SessionFieldsThrows
     THEN \* getSessionFieldsOrThrow throws; the catch block sets the error
          \* and rethrows
          /\ UpdateAgentState(PasteRejected(NoFieldsError))
          /\ pastes' = pastes (+)
               SetToBag({PasteCall("threw", <<>>, FALSE, FALSE, <<>>)})
          /\ UNCHANGED clipboard
     ELSE LET fields == agentState.sessionFields
              currentIndex == clampIndex(agentState.currentIndex, Len(fields))
              field == fields[currentIndex + 1]
          IN IF field.value = <<>>
             THEN /\ UpdateAgentState(PasteRejected(NoValueError))
                  /\ pastes' = pastes (+)
                       SetToBag({PasteCall("returned", <<>>, FALSE,
                                           FALSE, <<>>)})
                  /\ UNCHANGED clipboard
             ELSE /\ UpdateAgentState([status |-> "typing",
                                       lastError |-> Undefined])
                  /\ clipboard' = field.value
                  /\ pastes' = pastes (+)
                       SetToBag({PasteCall("settle", clipboard, TRUE, FALSE,
                                           <<>>)})
  /\ UNCHANGED <<captures, mergeVars, panelVars>>

\* A timer of the try block elapses: 200 ms, then 400 ms, after which
\* pressCommandV is called.
PasteTimer ==
  \E c \in BagToSet(pastes) :
    /\ c.pc \in {"settle", "focus"}
    /\ pastes' = ReplaceInBag(pastes, c,
                   [c EXCEPT !.pc = IF c.pc = "settle" THEN "focus" ELSE "key"])
    /\ UNCHANGED <<agentState, lastBroadcast, clipboard, captures, mergeVars,
                   panelVars>>

\* Mutation: no finally block; a rejected keystroke goes to the catch block
\* at once.
PasteKeystrokeNoFinally ==
  \E c \in BagToSet(pastes), ok \in BOOLEAN :
    /\ c.pc = "key"
    /\ IF ok
       THEN /\ pastes' = ReplaceInBag(pastes, c, [c EXCEPT !.pc = "landed"])
            /\ UNCHANGED <<agentState, lastBroadcast>>
       ELSE /\ UpdateAgentState([status |-> "error",
                                 lastError |-> KeystrokeError])
            /\ pastes' = ReplaceInBag(pastes, c,
                           [c EXCEPT !.pc = "threw", !.keyFailed = TRUE])
    /\ UNCHANGED <<clipboard, captures, mergeVars, panelVars>>

\* pressCommandV settles: resolved, or rejected (no accessibility permission);
\* a rejection leaves the try block for the finally block.
PasteKeystroke ==
  \E c \in BagToSet(pastes), ok \in BOOLEAN :
    /\ c.pc = "key"
    /\ pastes' = ReplaceInBag(pastes, c,
                   IF ok THEN [c EXCEPT !.pc = "landed"]
                   ELSE [c EXCEPT !.pc = "restore", !.keyFailed = TRUE])
    /\ UNCHANGED <<agentState, lastBroadcast, clipboard, captures, mergeVars,
                   panelVars>>

\* The 500 ms timer after the keystroke elapses; the finally block starts.
PasteLanded ==
  \E c \in BagToSet(pastes) :
    /\ c.pc = "landed"
    /\ pastes' = ReplaceInBag(pastes, c, [c EXCEPT !.pc = "restore"])
    /\ UNCHANGED <<agentState, lastBroadcast, clipboard, captures, mergeVars,
                   panelVars>>

\* Mutation: a successful paste moves the selection to the next field.
PasteSucceededAdvances ==
  [ status |-> "idle",
    currentIndex |-> clampIndex(agentState.currentIndex + 1,
                                Len(agentState.sessionFields)) ]

\* Line 209: the update after a successful paste
PasteSucceeded == [status |-> "idle"]

\* What the finally block writes to the clipboard (line 201)
RestoredClipboard(c) == c.previousText

\* Lines 196-223: the timer of the finally block elapses, the clipboard is
\* written back, then either status "idle" or the catch block and a rethrow.
PasteRestore ==
  \E c \in BagToSet(pastes) :
    /\ c.pc = "restore"
    /\ clipboard' = RestoredClipboard(c)
    /\ IF c.keyFailed
       THEN /\ UpdateAgentState([status |-> "error",
                                 lastError |-> KeystrokeError])
            /\ pastes' = ReplaceInBag(pastes, c,
                           [c EXCEPT !.pc = "threw", !.restored = <<clipboard'>>])
       ELSE /\ UpdateAgentState(PasteSucceeded)
            /\ pastes' = ReplaceInBag(pastes, c,
                           [c EXCEPT !.pc = "done", !.restored = <<clipboard'>>])
    /\ UNCHANGED <<captures, mergeVars, panelVars>>

----------------------------------------------------------------------------
(* handleCaptureAndEnrich *)

\* pc: "capture" awaiting captureFullScreen, "extract" awaiting
\*     extractSessionFieldsFromImage, "returned" with success "true" or
\*     "false" ("pending" before)
CaptureCall(pc, success) == [pc |-> pc, success |-> success]

\* What extractSessionFieldsFromImage can return: fields of non-empty value
\* (line 228), possibly none, possibly the same id twice.
ExtractionResults ==
  { <<>>,
    << Field("name", "Name", <<"B">>) >>,
    << Field("name", "Name", <<"c">>), Field("note", "Note", <<"a", " ", "b">>) >>,
    << Field("note", "Note", <<"b", "b">>), Field("note", "Note", <<"c">>) >> }

\* Lines 236-244: status "capturing", then the session id is assigned in
\* place (no broadcast), then captureFullScreen is awaited.
CaptureStart ==
  /\ CallsStarted < MaxCalls
  /\ LET updated == Spread(agentState,
                           [status |-> "capturing", lastError |-> Undefined])
     IN /\ lastBroadcast' = updated
        /\ agentState' =
             IF updated.sessionId = Undefined
             THEN [updated EXCEPT !.sessionId = "session"]
             ELSE updated
  /\ captures' = captures (+) SetToBag({CaptureCall("capture", "pending")})
  /\ UNCHANGED <<clipboard, pastes, mergeVars, panelVars>>

\* Mutation: the catch block also resets the session.
CaptureCatchReset(errorMessage) ==
  [ status |-> "error", lastError |-> errorMessage,
    sessionFields |-> <<>>, currentIndex |-> 0 ]

\* Lines 279-285: the catch block
CaptureCatch(errorMessage) == [status |-> "error", lastError |-> errorMessage]

\* captureFullScreen settles
CaptureScreen ==
  \E c \in BagToSet(captures), ok \in BOOLEAN :
    /\ c.pc = "capture"
    /\ IF ok
       THEN /\ captures' = ReplaceInBag(captures, c, [c EXCEPT !.pc = "extract"])
            /\ UNCHANGED <<agentState, lastBroadcast>>
       ELSE /\ UpdateAgentState(CaptureCatch(CaptureError))
            /\ captures' = ReplaceInBag(captures, c, CaptureCall("returned", "false"))
    /\ UNCHANGED <<clipboard, pastes, mergeVars, panelVars>>

\* Mutation: the capture merges into an empty list instead of the session
\* fields it reads after its awaits.
CaptureMergedForgets(incomingFields) ==
  [ status |-> "idle",
    sessionFields |-> mergeSessionFields(<<>>, incomingFields),
    currentIndex |-> 0, lastError |-> Undefined ]

\* Mutation: every successful capture selects the first field.
CaptureMergedResets(incomingFields) ==
  [ status |-> "idle",
    sessionFields |-> mergeSessionFields(agentState.sessionFields, incomingFields),
    currentIndex |-> 0, lastError |-> Undefined ]

\* Lines 254-270: merge into the session fields read now, and the new index
CaptureMerged(incomingFields) ==
  LET mergedFields == mergeSessionFields(agentState.sessionFields, incomingFields)
      newIndex == IF Len(agentState.sessionFields) = 0 /\ Len(mergedFields) > 0
                  THEN 0
                  ELSE clampIndex(agentState.currentIndex, Len(mergedFields))
  IN [ status |-> "idle", sessionFields |-> mergedFields,
       currentIndex |-> newIndex, lastError |-> Undefined ]

\* extractSessionFieldsFromImage settles
CaptureExtract ==
  \E c \in BagToSet(captures), ok \in BOOLEAN :
    /\ c.pc = "extract"
    /\ IF ok
       THEN \E incomingFields \in ExtractionResults :
              /\ UpdateAgentState(CaptureMerged(incomingFields))
              /\ captures' = ReplaceInBag(captures, c, CaptureCall("returned", "true"))
       ELSE /\ UpdateAgentState(CaptureCatch(ExtractionError))
            /\ captures' = ReplaceInBag(captures, c, CaptureCall("returned", "false"))
    /\ UNCHANGED <<clipboard, pastes, mergeVars, panelVars>>

----------------------------------------------------------------------------
(* Spec: the agent *)

AgentInit ==
  /\ agentState = AgentStateInit
  /\ lastBroadcast = AgentStateInit
  /\ clipboard = <<"x">>
  /\ pastes = EmptyBag
  /\ captures = EmptyBag

----------------------------------------------------------------------------
(* MergeSpec: mergeSessionFields applied to bounded inputs, twice *)

SeqsUpTo(S, n) == UNION {[1..k -> S] : k \in 0..n}

MergeIds == {"name", "note", "dob"}

\* Values covering containment ("B" in "b a" after lower-casing), token
\* overlap without containment ("a b" / "b a"), disjoint values of equal
\* length, of exactly half the length ("c" / "bb") and of less than half
\* ("c" / "a b"), and a value of white space only, which passes the
\* value.length > 0 filter of the extraction.
MergeValues ==
  { <<"B">>, <<"c">>, <<"b", "b">>, <<"a", " ", "b">>, <<"b", " ", "a">>,
    <<" ">> }

ExistingFields == {Field(i, "Old", v) : i \in MergeIds, v \in MergeValues}
IncomingFields == {Field(i, "New", v) : i \in MergeIds, v \in MergeValues}

MergeInit ==
  /\ mExisting \in {e \in SeqsUpTo(ExistingFields, MaxFields) : UniqueIds(e)}
  /\ mIncoming \in SeqsUpTo(IncomingFields, MaxFields - Len(mExisting))
  /\ mOnce = <<>>
  /\ mTwice = <<>>
  /\ mPc = "input"

MergeIdle ==
  /\ mExisting = <<>> /\ mIncoming = <<>> /\ mOnce = <<>> /\ mTwice = <<>>
  /\ mPc = "unused"

MergeOnce ==
  /\ mPc = "input"
  /\ mOnce' = mergeSessionFields(mExisting, mIncoming)
  /\ mPc' = "once"
  /\ UNCHANGED <<mExisting, mIncoming, mTwice, agentVars, panelVars>>

MergeTwice ==
  /\ mPc = "once"
  /\ mTwice' = mergeSessionFields(mOnce, mIncoming)
  /\ mPc' = "twice"
  /\ UNCHANGED <<mExisting, mIncoming, mOnce, agentVars, panelVars>>

----------------------------------------------------------------------------
(* The OS: applications, their windows, the frontmost application.          *)
(* A window is [app, index, title, x, y, width, height, fullscreen]; index  *)
(* is its position in "every window" of its process (window 1 first).       *)

ScreenWidth == 1440
ScreenHeight == 900
PanelWidth == 400
OurApp == "Electron"
HeidiApp == "Heidi"
EmrApp == "EMR"
OtherApp == "Finder"
Apps == {OurApp, HeidiApp, EmrApp, OtherApp}

\* Order of "every application process whose visible is true"
ProcessOrder(app) ==
  IF app = HeidiApp THEN 1 ELSE IF app = EmrApp THEN 2
  ELSE IF app = OtherApp THEN 3 ELSE 4

ChartTitle == <<"p", "c">>
InboxTitle == <<"i", "n">>
HeidiTitle == <<"h", "e", "i", "d", "i">>

Window(app, index, title, x, y, width, height, fullscreen) ==
  [ app |-> app, index |-> index, title |-> title, x |-> x, y |-> y,
    width |-> width, height |-> height, fullscreen |-> fullscreen ]

NullBounds == [appName |-> "", x |-> 0, y |-> 0, width |-> 0, height |-> 0]
NoLink == [appName |-> "", windowTitle |-> <<>>]

\* OriginalBounds parsed from "AppName|x|y|width|height"
BoundsOf(w) ==
  [ appName |-> w.app, x |-> w.x, y |-> w.y, width |-> w.width,
    height |-> w.height ]

WindowIdsOf(wins, app) == {id \in DOMAIN wins : wins[id].app = app}
\* "item i of every window" of a process
WindowAt(wins, app, i) ==
  CHOOSE id \in WindowIdsOf(wins, app) : wins[id].index = i
Area(w) == w.width * w.height

\* set position of win to {0, winY}; set size of win to {newWidth, winHeight}
PushWindow(wins, id) ==
  [wins EXCEPT ![id].x = 0, ![id].width = ScreenWidth - PanelWidth]

\* set position / size of win to the given bounds
SetBounds(wins, id, b) ==
  [wins EXCEPT ![id].x = b.x, ![id].y = b.y, ![id].width = b.width,
               ![id].height = b.height]

\* set position of win to {0, winY}; set size of win to {screenWidth, winHeight}
FullWidth(wins, id) == [wins EXCEPT ![id].x = 0, ![id].width = ScreenWidth]

\* The window a "repeat ... if area > largestArea" scan ends with: the largest
\* area among the candidates, the first in scan order among equals.
LargestOf(wins, candidates) ==
  CHOOSE id \in candidates :
    \A other \in candidates :
      \/ Area(wins[id]) > Area(wins[other])
      \/ /\ Area(wins[id]) = Area(wins[other])
         /\ ProcessOrder(wins[id].app) * 10 + wins[id].index
              <= ProcessOrder(wins[other].app) * 10 + wins[other].index

IsOurApp(app) == app = OurApp

\* The AppleScript of pushFrontmostWindow: the window it resizes, or "none"
\* when it returns skip / no_window / fullscreen / too_small.
PushFrontmostTarget(wins, front) ==
  IF IsOurApp(front)
  THEN LET candidates ==
             {id \in DOMAIN wins :
                ~IsOurApp(wins[id].app) /\ wins[id].width > PanelWidth
                  /\ Area(wins[id]) > 0}
       IN IF candidates = {} THEN "none" ELSE LargestOf(wins, candidates)
  ELSE LET own == WindowIdsOf(wins, front)
           candidates ==
             {id \in own : wins[id].width > PanelWidth /\ Area(wins[id]) > 0}
       IN IF own = {} THEN "none"
          ELSE IF \E id \in own : wins[id].fullscreen THEN "none"
          ELSE IF candidates # {} THEN LargestOf(wins, candidates)
          ELSE IF wins[WindowAt(wins, front, 1)].width <= PanelWidth THEN "none"
          ELSE WindowAt(wins, front, 1)

\* The AppleScript of restoreFrontmostWindow: window 1 of process appName
RestoreTarget(wins, b) ==
  IF WindowIdsOf(wins, b.appName) = {} THEN "none"
  ELSE WindowAt(wins, b.appName, 1)

RestoreFrontmostScript(wins, b) ==
  IF RestoreTarget(wins, b) = "none" THEN wins
  ELSE SetBounds(wins, RestoreTarget(wins, b), b)

\* String comparison of AppleScript "contains": case-insensitive containment
AppleContains(s, t) == Includes(ToLowerCase(s), ToLowerCase(t))
TitleMatchesScript(title, linkTitle) ==
  AppleContains(title, linkTitle) \/ AppleContains(linkTitle, title)

\* heidiScript of pushLinkedWindows: window 1 of the Heidi process
HeidiPushTarget(wins) ==
  IF WindowIdsOf(wins, HeidiApp) = {} THEN "none"
  ELSE IF wins[WindowAt(wins, HeidiApp, 1)].width > PanelWidth
       THEN WindowAt(wins, HeidiApp, 1)
       ELSE "none"

\* The window the emr scripts pick: the first whose title matches, else
\* window 1
EmrScriptWindow(wins, link) ==
  LET own == WindowIdsOf(wins, link.appName)
      matching == {id \in own : TitleMatchesScript(wins[id].title, link.windowTitle)}
  IN IF own = {} THEN "none"
     ELSE IF matching # {}
     THEN CHOOSE id \in matching :
            \A other \in matching : wins[id].index <= wins[other].index
     ELSE WindowAt(wins, link.appName, 1)

\* emrScript of pushLinkedWindows
EmrPushTarget(wins, link) ==
  IF EmrScriptWindow(wins, link) = "none" THEN "none"
  ELSE IF wins[EmrScriptWindow(wins, link)].width > PanelWidth
       THEN EmrScriptWindow(wins, link)
       ELSE "none"

\* heidiScript of restoreLinkedWindows: every window of the Heidi process
RestoreLinkedHeidiScript(wins) ==
  [id \in DOMAIN wins |->
     IF wins[id].app = HeidiApp
     THEN [wins[id] EXCEPT !.x = 0, !.width = ScreenWidth]
     ELSE wins[id]]

\* emrScript of restoreLinkedWindows
RestoreLinkedEmrScript(wins, link) ==
  IF EmrScriptWindow(wins, link) = "none" THEN wins
  ELSE FullWidth(wins, EmrScriptWindow(wins, link))

\* getFrontmostWindowInfo: app name and title of window 1 of the frontmost
\* process; "no_window" gives null
FrontmostHasWindow(wins, front) ==
  IsOurApp(front) \/ WindowIdsOf(wins, front) # {}
FrontmostTitle(wins, front) ==
  IF IsOurApp(front) THEN <<>> ELSE wins[WindowAt(wins, front, 1)].title

isHeidiWindow(appName, windowTitle) ==
  \/ appName = HeidiApp
  \/ Includes(ToLowerCase(windowTitle), HeidiTitle)

\* link is the value of linkedEmrWindow the call reads
matchesLinkedEmrWindow(link, appName, windowTitle) ==
  /\ link # NoLink
  /\ appName = link.appName
  /\ \/ windowTitle = link.windowTitle
     \/ Includes(windowTitle, link.windowTitle)
     \/ Includes(link.windowTitle, windowTitle)

----------------------------------------------------------------------------
(* Panel state as one record, so that the steps of a handler compose.  A    *)
(* step takes the state with the running call removed from tasks, and the   *)
(* call; it puts the call back when the call suspends at an await.          *)
(* An osascript run acts on the windows when it is started; its result is   *)
(* kept in the call until the call resumes.  ok = FALSE is a run that       *)
(* fails (exec rejects, nothing changed).  The 31 timer steps of slideIn /  *)
(* slideOut only move the panel window and are one suspension here.         *)

PanelState ==
  [ mainWindow |-> mainWindow, panelShown |-> panelShown,
    iconShown |-> iconShown, isPanelVisible |-> isPanelVisible,
    savedWindowBounds |-> savedWindowBounds,
    savedHeidiBounds |-> savedHeidiBounds,
    savedEmrBounds |-> savedEmrBounds,
    hasPushedWindow |-> hasPushedWindow,
    linkedEmrWindow |-> linkedEmrWindow,
    lastKnownHeidiContext |-> lastKnownHeidiContext,
    windows |-> windows, frontApp |-> frontApp, tasks |-> tasks,
    scriptFailures |-> scriptFailures, panelCalls |-> panelCalls ]

SetPanel(s) ==
  /\ mainWindow' = s.mainWindow
  /\ panelShown' = s.panelShown
  /\ iconShown' = s.iconShown
  /\ isPanelVisible' = s.isPanelVisible
  /\ savedWindowBounds' = s.savedWindowBounds
  /\ savedHeidiBounds' = s.savedHeidiBounds
  /\ savedEmrBounds' = s.savedEmrBounds
  /\ hasPushedWindow' = s.hasPushedWindow
  /\ linkedEmrWindow' = s.linkedEmrWindow
  /\ lastKnownHeidiContext' = s.lastKnownHeidiContext
  /\ windows' = s.windows
  /\ frontApp' = s.frontApp
  /\ tasks' = s.tasks
  /\ scriptFailures' = s.scriptFailures
  /\ panelCalls' = s.panelCalls

\* kind: "toggle" (togglePanel), "watcher" (updateFloatingIconVisibility),
\*       "link" (the agent:setLinkedEmrWindow handler)
\* res: result of the push script in flight; heidi, emr: the locals
\* heidiBounds / emrBounds; failed: the script in flight was rejected;
\* chain: "link" for the togglePanel call awaited by the link handler
Task(kind, pc) ==
  [ kind |-> kind, pc |-> pc, res |-> NullBounds, heidi |-> NullBounds,
    emr |-> NullBounds, failed |-> FALSE, chain |-> "none" ]

\* An osascript run has been started; ok = FALSE counts a rejected run
Ran(s, ok) == [s EXCEPT !.scriptFailures = IF ok THEN @ ELSE @ + 1]

Take(s, t) == [s EXCEPT !.tasks = @ (-) SetToBag({t})]
Put(s, t) == [s EXCEPT !.tasks = @ (+) SetToBag({t})]

\* The call returns; the link handler continues after its awaited togglePanel
End(s, t) ==
  IF t.chain = "link" THEN Put(s, Task("link", "linkWatch")) ELSE s

ResultOf(wins, target, ok) ==
  IF ok /\ target # "none" THEN BoundsOf(wins[target]) ELSE NullBounds
PushedBy(wins, target, ok) ==
  IF ok /\ target # "none" THEN PushWindow(wins, target) ELSE wins

----------------------------------------------------------------------------
(* togglePanel: show branch *)

\* pushFrontmostWindow is called; it catches a failed run and returns null
CallPushFrontmost(s, t, pc, ok) ==
  LET target == PushFrontmostTarget(s.windows, s.frontApp)
  IN Put(Ran([s EXCEPT !.windows = PushedBy(@, target, ok)], ok),
         [t EXCEPT !.pc = pc, !.res = ResultOf(s.windows, target, ok),
                   !.failed = FALSE])

\* Lines 1315-1332
AfterSlideIn(s, t) ==
  IF s.linkedEmrWindow = NoLink THEN Put(s, [t EXCEPT !.pc = "pairDelay"])
  ELSE End(s, t)

\* slideIn, line 307: returns at once without a window or when visible
SlideIn(s, t) ==
  IF ~s.mainWindow \/ s.isPanelVisible THEN AfterSlideIn(s, t)
  ELSE Put(s, [t EXCEPT !.pc = "slideIn"])

\* Lines 1293-1313: hide the icon, show the panel window, slide in
ShowPanel(s, t) ==
  SlideIn([s EXCEPT !.iconShown = FALSE,
                    !.panelShown = IF s.mainWindow THEN TRUE ELSE @], t)

\* Lines 1262-1266: pushLinkedWindows has returned
LinkedPushed(s, t, ok) ==
  CallPushFrontmost([s EXCEPT !.savedHeidiBounds = t.heidi,
                              !.savedEmrBounds = t.emr], t, "pushFront", ok)

\* Lines 698-751: the emr script is started
CallEmrPush(s, t, ok) ==
  LET target == EmrPushTarget(s.windows, s.linkedEmrWindow)
  IN Put(Ran([s EXCEPT !.windows = PushedBy(@, target, ok)], ok),
         [t EXCEPT !.pc = "pushEmr", !.res = ResultOf(s.windows, target, ok),
                   !.failed = ~ok])

\* Lines 646-680: pushLinkedWindows starts the heidi script
CallHeidiPush(s, t, ok) ==
  LET target == HeidiPushTarget(s.windows)
  IN Put(Ran([s EXCEPT !.windows = PushedBy(@, target, ok)], ok),
         [t EXCEPT !.pc = "pushHeidi", !.res = ResultOf(s.windows, target, ok),
                   !.failed = ~ok])

\* Lines 1250-1271: create the panel window if needed, start pushing
ToggleShow(s, t, ok) ==
  LET s1 == [s EXCEPT !.mainWindow = TRUE,
                      !.panelShown = IF s.mainWindow THEN @ ELSE FALSE,
                      !.isPanelVisible = IF s.mainWindow THEN @ ELSE FALSE]
  IN IF s.linkedEmrWindow # NoLink THEN CallHeidiPush(s1, t, ok)
     ELSE CallPushFrontmost(s1, t, "pushFrontOnly", ok)

----------------------------------------------------------------------------
(* Restoring the pushed windows: lines 1338-1381 and 1805-1851 *)

\* Lines 1383-1403 for togglePanel; the watcher has nothing more to do
HideEnd(s, t) ==
  IF t.kind = "toggle"
  THEN End([s EXCEPT !.panelShown = FALSE, !.iconShown = TRUE], t)
  ELSE End(s, t)

\* Lines 1376-1380 / 1846-1850
ClearSaved(s) ==
  [s EXCEPT !.savedWindowBounds = NullBounds, !.savedHeidiBounds = NullBounds,
            !.savedEmrBounds = NullBounds, !.hasPushedWindow = FALSE]

RestoreEnd(s, t) == HideEnd(ClearSaved(s), t)

\* restoreFrontmostWindow(b) is called; it catches a failed run
CallRestore(s, t, b, pc, ok) ==
  Put(Ran([s EXCEPT !.windows = IF ok THEN RestoreFrontmostScript(@, b) ELSE @], ok),
      [t EXCEPT !.pc = pc])

\* restoreLinkedWindows is called: returns at once when nothing is linked,
\* else starts its heidi script
CallRelink(s, t, ok) ==
  IF s.linkedEmrWindow = NoLink THEN RestoreEnd(s, t)
  ELSE Put(Ran([s EXCEPT !.windows = IF ok THEN RestoreLinkedHeidiScript(@) ELSE @], ok),
           [t EXCEPT !.pc = "relinkHeidi", !.failed = ~ok])

\* Lines 1338-1381
RestoreBegin(s, t, ok) ==
  IF s.hasPushedWindow
  THEN IF /\ s.linkedEmrWindow # NoLink
          /\ (s.savedHeidiBounds # NullBounds \/ s.savedEmrBounds # NullBounds)
       THEN IF s.savedHeidiBounds # NullBounds
            THEN CallRestore(s, t, s.savedHeidiBounds, "restoreHeidi", ok)
            ELSE CallRestore(s, t, s.savedEmrBounds, "restoreEmr", ok)
       ELSE IF s.savedWindowBounds # NullBounds
       THEN CallRestore(s, t, s.savedWindowBounds, "restoreFront", ok)
       ELSE RestoreEnd(s, t)
  ELSE HideEnd(s, t)

\* Lines 1333-1336: slideOut returns at once without a window (line 334)
ToggleHide(s, t, ok) ==
  IF ~s.mainWindow \/ ~s.isPanelVisible THEN RestoreBegin(s, t, ok)
  ELSE Put(s, [t EXCEPT !.pc = "slideOut"])

----------------------------------------------------------------------------
(* canOpenMainPanel and the gate of togglePanel *)

\* Lines 1204-1226, after the await, given the result of
\* getFrontmostWindowInfo (the link was set when the call began, line 1200)
canOpenMainPanel(s, hasInfo, appName, windowTitle) ==
  /\ hasInfo
  /\ \/ IsOurApp(appName)
     \/ isHeidiWindow(appName, windowTitle)
     \/ matchesLinkedEmrWindow(s.linkedEmrWindow, appName, windowTitle)

\* togglePanel without line 1245-1248: the gate ignores canOpen
ToggleGateUngated(s, t, canOpen, ok) ==
  IF ~s.isPanelVisible THEN ToggleShow(s, t, ok) ELSE ToggleHide(s, t, ok)

\* Lines 1237-1250
ToggleGate(s, t, canOpen, ok) ==
  IF ~canOpen /\ ~s.isPanelVisible THEN End(s, t)
  ELSE IF ~s.isPanelVisible THEN ToggleShow(s, t, ok)
  ELSE ToggleHide(s, t, ok)

\* togglePanel is called: canOpenMainPanel returns false at once when nothing
\* is linked, else awaits getFrontmostWindowInfo
ToggleCall(s, t, ok) ==
  IF s.linkedEmrWindow = NoLink THEN ToggleGate(s, t, FALSE, ok)
  ELSE Put(s, [t EXCEPT !.pc = "canOpen"])

----------------------------------------------------------------------------
(* updateFloatingIconVisibility *)

\* Lines 1645-1664
WatcherCall(s, validate) ==
  IF s.isPanelVisible THEN [s EXCEPT !.iconShown = FALSE]
  ELSE IF validate /\ s.linkedEmrWindow # NoLink
  THEN Put(s, Task("watcher", "validate"))
  ELSE Put(s, Task("watcher", "frontmost"))

\* validateLinkedEmrWindow, lines 1615-1639, given whether listVisibleWindows
\* returned the windows (listed) or nothing
\* listVisibleWindows, lines 925-1010: windows of other processes with a
\* title that is not empty and does not contain "Heidi"
ListedWindows(wins) ==
  {id \in DOMAIN wins :
     /\ ~IsOurApp(wins[id].app)
     /\ wins[id].title # <<>>
     /\ ~AppleContains(wins[id].title, HeidiTitle)}

\* Mutation: any listed window of the linked application counts
StillExistsAnyTitle(wins, link) ==
  \E id \in ListedWindows(wins) : wins[id].app = link.appName

StillExists(wins, link) ==
  \E id \in ListedWindows(wins) :
    /\ wins[id].app = link.appName
    /\ \/ wins[id].title = link.windowTitle
       \/ Includes(wins[id].title, link.windowTitle)
       \/ Includes(link.windowTitle, wins[id].title)

\* The null branch without lines 1665-1674: nothing is hidden
NullFrontmostKeepsShown(s, t) == End(s, t)

\* Lines 1665-1678: getFrontmostWindowInfo returned null
NullFrontmost(s, t) ==
  LET s1 == [s EXCEPT !.iconShown = FALSE]
  IN IF s.isPanelVisible /\ s.mainWindow
     THEN Put(s1, [t EXCEPT !.pc = "slideOutNull"])
     ELSE End(s1, t)

\* Lines 1695-1703
NextHeidiContext(last, isHeidi, isLinkedEmr, isOurWindow) ==
  IF isHeidi THEN TRUE
  ELSE IF isLinkedEmr THEN FALSE
  ELSE IF ~isOurWindow THEN FALSE
  ELSE last

----------------------------------------------------------------------------
(* The agent:setLinkedEmrWindow handler, lines 1912-1980 *)

----------------------------------------------------------------------------
(* Initial windows.  No window starts at full width.  The EMR process has   *)
(* two windows: the inbox is its window 1 and the widest window, the chart  *)
(* has the largest area.  The Finder has no window.                         *)

WindowIds == {"heidi", "inbox", "chart"}
InitialWindows ==
  [id \in WindowIds |->
     IF id = "heidi"
     THEN Window(HeidiApp, 1, HeidiTitle, 100, 0, 1000, 800, FALSE)
     ELSE IF id = "inbox"
     THEN Window(EmrApp, 1, InboxTitle, 50, 50, 1300, 500, FALSE)
     ELSE Window(EmrApp, 2, ChartTitle, 200, 0, 1200, 800, FALSE)]

\* main.ts:23-44 and createMainPanelWindow / createFloatingIconWindow at
\* startup: panel window created hidden, icon window shown
PanelInit ==
  /\ mainWindow = TRUE
  /\ panelShown = FALSE
  /\ iconShown = TRUE
  /\ isPanelVisible = FALSE
  /\ savedWindowBounds = NullBounds
  /\ savedHeidiBounds = NullBounds
  /\ savedEmrBounds = NullBounds
  /\ hasPushedWindow = FALSE
  /\ linkedEmrWindow = NoLink
  /\ lastKnownHeidiContext = FALSE
  /\ tasks = EmptyBag
  /\ scriptFailures = 0
  /\ panelCalls = 0
  /\ windows = InitialWindows
  /\ frontApp = HeidiApp

----------------------------------------------------------------------------
(* Actions of the panel: one per call and per resumption after an await *)

MaxInFlight == 2
MaxScriptFailures == 1
MaxPanelCalls == 2

Running(pc) == {t \in BagToSet(tasks) : t.pc = pc}
CanStart == BagCardinality(tasks) < MaxInFlight /\ panelCalls < MaxPanelCalls
\* The state in which a new call begins
CallState == [PanelState EXCEPT !.panelCalls = @ + 1]

Commit(s) ==
  /\ s.scriptFailures <= MaxScriptFailures
  /\ SetPanel(s)
  /\ UNCHANGED <<agentVars, mergeVars>>

\* getFrontmostWindowInfo, lines 871-920: null when the run is rejected or
\* the frontmost process has no window
QueryInfo(s, qok) ==
  LET has == qok /\ FrontmostHasWindow(s.windows, s.frontApp)
  IN [ has |-> has, appName |-> s.frontApp,
       title |-> IF has THEN FrontmostTitle(s.windows, s.frontApp) ELSE <<>> ]

\* Alt+Y, the icon click in linked mode, or the ui:togglePanel message
TogglePanelCall ==
  /\ CanStart
  /\ \E ok \in BOOLEAN :
       Commit(ToggleCall(CallState, Task("toggle", "start"), ok))

ToggleCanOpen ==
  \E t \in Running("canOpen"), qok \in BOOLEAN, ok \in BOOLEAN :
    LET s == Ran(Take(PanelState, t), qok)
        q == QueryInfo(s, qok)
    IN Commit(ToggleGate(s, t,
                canOpenMainPanel(s, q.has, q.appName, q.title), ok))

\* Lines 680-697: the heidi script has ended.  A rejected run, or a link
\* cleared meanwhile (linkedEmrWindow.appName throws), goes to the catch
\* block of pushLinkedWindows and skips the emr script.
ToggleHeidiPushed ==
  \E t \in Running("pushHeidi"), ok \in BOOLEAN :
    LET s == Take(PanelState, t)
    IN Commit(
        IF t.failed
        THEN LinkedPushed(s, [t EXCEPT !.heidi = NullBounds, !.emr = NullBounds], ok)
        ELSE IF s.linkedEmrWindow = NoLink
        THEN LinkedPushed(s, [t EXCEPT !.heidi = t.res, !.emr = NullBounds], ok)
        ELSE CallEmrPush(s, [t EXCEPT !.heidi = t.res], ok))

\* Lines 751-772: the emr script has ended
ToggleEmrPushed ==
  \E t \in Running("pushEmr"), ok \in BOOLEAN :
    LET s == Take(PanelState, t)
    IN Commit(
        LinkedPushed(s, [t EXCEPT !.emr = IF t.failed THEN NullBounds ELSE t.res], ok))

\* Lines 1266-1268, after pushFrontmostWindow in the linked branch
ToggleFrontPushed ==
  \E t \in Running("pushFront") :
    LET s == Take(PanelState, t)
    IN Commit(
        ShowPanel([s EXCEPT !.savedWindowBounds = t.res,
                            !.hasPushedWindow =
                               (t.heidi # NullBounds \/ t.emr # NullBounds
                                  \/ t.res # NullBounds)], t))

\* Lines 1271-1280, after pushFrontmostWindow in the unlinked branch
ToggleFrontOnlyPushed ==
  \E t \in Running("pushFrontOnly") :
    LET s == Take(PanelState, t)
    IN Commit(
        ShowPanel([s EXCEPT !.savedWindowBounds = t.res,
                            !.hasPushedWindow = (t.res # NullBounds),
                            !.savedHeidiBounds = NullBounds,
                            !.savedEmrBounds = NullBounds], t))

\* Line 328: the slide-in animation has ended
SlideInEnds ==
  \E t \in Running("slideIn") :
    Commit(AfterSlideIn([Take(PanelState, t) EXCEPT !.isPanelVisible = TRUE], t))

\* Lines 1318-1331: the 300 ms before the pairing window is shown
PairDelayEnds ==
  \E t \in Running("pairDelay") : Commit(End(Take(PanelState, t), t))

\* The slide-out animation has ended (line 353); the watcher then hides the
\* panel window (lines 1672-1674, 1800-1802)
SlideOutEnds ==
  \E t \in Running("slideOut") \cup Running("slideOutNull"), ok \in BOOLEAN :
    LET s == Take(PanelState, t)
    IN Commit(
        LET s1 == [s EXCEPT !.isPanelVisible = FALSE]
            s2 == [s1 EXCEPT !.panelShown = IF s.mainWindow THEN FALSE ELSE @]
        IN IF t.kind = "toggle" THEN RestoreBegin(s1, t, ok)
           ELSE IF t.pc = "slideOutNull" THEN End(s2, t)
           ELSE RestoreBegin(s2, t, ok))

\* Lines 1344-1351: after restoring the Heidi window
RestoreHeidiEnds ==
  \E t \in Running("restoreHeidi"), ok \in BOOLEAN :
    LET s == Take(PanelState, t)
    IN Commit(
        IF s.savedEmrBounds # NullBounds
        THEN CallRestore(s, t, s.savedEmrBounds, "restoreEmr", ok)
        ELSE CallRelink(s, t, ok))

RestoreEmrEnds ==
  \E t \in Running("restoreEmr"), ok \in BOOLEAN :
    Commit(CallRelink(Take(PanelState, t), t, ok))

\* Lines 818-861: the heidi script of restoreLinkedWindows has ended; a
\* rejected run or a cleared link goes to its catch block
RelinkHeidiEnds ==
  \E t \in Running("relinkHeidi"), ok \in BOOLEAN :
    LET s == Take(PanelState, t)
    IN Commit(
        IF t.failed \/ s.linkedEmrWindow = NoLink THEN RestoreEnd(s, t)
        ELSE Put(Ran([s EXCEPT !.windows =
                      IF ok THEN RestoreLinkedEmrScript(@, s.linkedEmrWindow) ELSE @], ok),
                 [t EXCEPT !.pc = "relinkEmr", !.failed = FALSE]))

RelinkEmrEnds ==
  \E t \in Running("relinkEmr") : Commit(RestoreEnd(Take(PanelState, t), t))

RestoreFrontEnds ==
  \E t \in Running("restoreFront") : Commit(RestoreEnd(Take(PanelState, t), t))

\* The 1000 ms interval of startFrontmostWindowWatcher; validate is the
\* Math.random() < 0.2 of line 1655
WatcherTick ==
  /\ CanStart
  /\ \E validate \in BOOLEAN : Commit(WatcherCall(CallState, validate))

WatcherValidated ==
  \E t \in Running("validate"), listed \in BOOLEAN :
    LET s0 == Take(PanelState, t)
    IN Commit(
        LET s == Ran(s0, listed) IN
        IF ~listed \/ ListedWindows(s.windows) = {}
        THEN Put(s, [t EXCEPT !.pc = "frontmost"])
        ELSE IF s.linkedEmrWindow = NoLink
        THEN s   \* linkedEmrWindow!.appName throws; the interval's catch logs it
        ELSE Put([s EXCEPT !.linkedEmrWindow =
                      IF StillExists(s.windows, @) THEN @ ELSE NoLink],
                 [t EXCEPT !.pc = "frontmost"]))

\* Lines 1664-1860, given the result of getFrontmostWindowInfo
WatcherFrontmost ==
  \E t \in Running("frontmost"), qok \in BOOLEAN, ok \in BOOLEAN :
    LET s == Ran(Take(PanelState, t), qok)
        q == QueryInfo(s, qok)
        hasInfo == q.has
        appName == q.appName
        windowTitle == q.title
    IN Commit(
        IF ~hasInfo THEN NullFrontmost(s, t)
        ELSE LET isOurWindow == IsOurApp(appName)
                 isHeidi == isHeidiWindow(appName, windowTitle)
                 isLinkedEmr ==
                   matchesLinkedEmrWindow(s.linkedEmrWindow, appName, windowTitle)
                 canOpen == IF s.linkedEmrWindow # NoLink
                            THEN isHeidi \/ isLinkedEmr ELSE isHeidi
                 s1 == [s EXCEPT !.lastKnownHeidiContext =
                           NextHeidiContext(@, isHeidi, isLinkedEmr, isOurWindow)]
             IN IF isOurWindow THEN End(s1, t)
                ELSE IF isHeidi THEN End([s1 EXCEPT !.iconShown = TRUE], t)
                ELSE IF isLinkedEmr /\ s.linkedEmrWindow # NoLink
                THEN End([s1 EXCEPT !.iconShown = TRUE], t)
                ELSE LET s2 == [s1 EXCEPT !.iconShown = canOpen]
                     IN IF ~canOpen
                        THEN IF s.isPanelVisible
                             THEN IF s.mainWindow
                                  THEN Put(s2, [t EXCEPT !.pc = "slideOut"])
                                  ELSE RestoreBegin(s2, t, ok)
                             ELSE End(s2, t)
                        ELSE End(s2, t))

\* Lines 1912-1923: the renderer links one of the listed windows of the EMR
SetLinkedEmrWindow ==
  /\ CanStart
  /\ \E id \in ListedWindows(windows) \cap WindowIdsOf(windows, EmrApp) :
       Commit(Put([CallState EXCEPT !.linkedEmrWindow =
                     [appName |-> windows[id].app,
                      windowTitle |-> windows[id].title]],
                  Task("link", "linkDelay")))

LinkDelayEnds ==
  \E t \in Running("linkDelay") :
    Commit(Put(Take(PanelState, t), [t EXCEPT !.pc = "linkFrontmost"]))

\* Lines 1930-1976, given the result of getFrontmostWindowInfo.  Activating
\* Heidi makes it the frontmost application.
LinkFrontmostEnds ==
  \E t \in Running("linkFrontmost"), qok \in BOOLEAN, validate \in BOOLEAN,
     ok \in BOOLEAN :
    LET s == Ran(Take(PanelState, t), qok)
        q == QueryInfo(s, qok)
        hasInfo == q.has
        appName == q.appName
        windowTitle == q.title
    IN Commit(
        LET isInHeidiContext ==
              IF hasInfo THEN isHeidiWindow(appName, windowTitle)
              ELSE s.lastKnownHeidiContext
        IN IF (isInHeidiContext \/ s.lastKnownHeidiContext) /\ ~s.isPanelVisible
           THEN Put(Ran([s EXCEPT !.frontApp = IF ok THEN HeidiApp ELSE @], ok),
                    [t EXCEPT !.pc = "linkActivate"])
           ELSE WatcherCall([s EXCEPT !.iconShown =
                               IF ~s.isPanelVisible THEN TRUE ELSE @], validate))

LinkActivated ==
  \E t \in Running("linkActivate") :
    Commit(Put(Take(PanelState, t), [t EXCEPT !.pc = "linkSettle"]))

\* Line 1966: await togglePanel()
LinkSettled ==
  \E t \in Running("linkSettle"), ok \in BOOLEAN :
    Commit(ToggleCall(Take(PanelState, t),
                      [Task("toggle", "start") EXCEPT !.chain = "link"], ok))

\* Line 1975: await updateFloatingIconVisibility()
LinkWatch ==
  \E t \in Running("linkWatch"), validate \in BOOLEAN :
    Commit(WatcherCall(Take(PanelState, t), validate))

\* The user brings another application to the front
FocusChange ==
  \E app \in Apps \ {frontApp} :
    Commit([PanelState EXCEPT !.frontApp = app])

\* The user closes the chart window of the EMR; the windows behind it move up
CloseWindow ==
  \E id \in DOMAIN windows \cap {"chart"} :
    Commit([PanelState EXCEPT !.windows =
      [j \in DOMAIN windows \ {id} |->
         IF windows[j].app = windows[id].app /\ windows[j].index > windows[id].index
         THEN [windows[j] EXCEPT !.index = @ - 1]
         ELSE windows[j]]])

PanelNext ==
  \/ TogglePanelCall \/ ToggleCanOpen \/ ToggleHeidiPushed \/ ToggleEmrPushed
  \/ ToggleFrontPushed \/ ToggleFrontOnlyPushed \/ SlideInEnds
  \/ PairDelayEnds \/ SlideOutEnds \/ RestoreHeidiEnds \/ RestoreEmrEnds
  \/ RelinkHeidiEnds \/ RelinkEmrEnds \/ RestoreFrontEnds
  \/ WatcherTick \/ WatcherValidated \/ WatcherFrontmost
  \/ SetLinkedEmrWindow \/ LinkDelayEnds \/ LinkFrontmostEnds
  \/ LinkActivated \/ LinkSettled \/ LinkWatch
  \/ FocusChange \/ CloseWindow


MergeNext == MergeOnce \/ MergeTwice

MergeSpecInit == MergeInit /\ AgentInit /\ PanelInit

MergeSpec == MergeSpecInit /\ [][MergeNext]_vars

Init == AgentInit /\ MergeIdle /\ PanelInit

Next ==
  \/ selectPreviousField
  \/ selectNextField
  \/ clearSession
  \/ PasteStart
  \/ PasteTimer
  \/ PasteKeystroke
  \/ PasteLanded
  \/ PasteRestore
  \/ CaptureStart
  \/ CaptureScreen
  \/ CaptureExtract

Spec == Init /\ [][Next]_vars
PanelSpec == Init /\ [][PanelNext]_vars

\* Lines 2001-2010: the application has started; the initial
\* updateFloatingIconVisibility call is awaiting its frontmost query
StartupInit ==
  /\ AgentInit /\ MergeIdle
  /\ mainWindow = TRUE
  /\ panelShown = FALSE
  /\ iconShown = TRUE
  /\ isPanelVisible = FALSE
  /\ savedWindowBounds = NullBounds
  /\ savedHeidiBounds = NullBounds
  /\ savedEmrBounds = NullBounds
  /\ hasPushedWindow = FALSE
  /\ linkedEmrWindow = NoLink
  /\ lastKnownHeidiContext = FALSE
  /\ tasks = SetToBag({Task("watcher", "frontmost")})
  /\ scriptFailures = 0
  /\ panelCalls = 0
  /\ windows = InitialWindows
  /\ frontApp = HeidiApp
StartupSpec == StartupInit /\ [][PanelNext]_vars

\* Window titles that differ in case, in length and in content
MaxTitleLen == 2
TitleChars == {"A", "a", "b"}
ClassifyTitles ==
  UNION {[1..n -> TitleChars] : n \in 1..MaxTitleLen}

\* An EMR window was linked under one title and the frontmost EMR window
\* now has another (the application retitles its windows); the watcher
\* runs, the user changes focus
ClassifyInit ==
  /\ AgentInit /\ MergeIdle
  /\ mainWindow = TRUE
  /\ panelShown = FALSE
  /\ iconShown = TRUE
  /\ isPanelVisible = FALSE
  /\ savedWindowBounds = NullBounds
  /\ savedHeidiBounds = NullBounds
  /\ savedEmrBounds = NullBounds
  /\ hasPushedWindow = FALSE
  /\ lastKnownHeidiContext = FALSE
  /\ tasks = EmptyBag
  /\ scriptFailures = 0
  /\ panelCalls = 0
  /\ frontApp = EmrApp
  /\ \E stored \in ClassifyTitles, observed \in ClassifyTitles :
       /\ linkedEmrWindow = [appName |-> EmrApp, windowTitle |-> stored]
       /\ windows = [InitialWindows EXCEPT !["inbox"].title = observed]
ClassifyNext ==
  WatcherTick \/ WatcherValidated \/ WatcherFrontmost \/ FocusChange
ClassifySpec == ClassifyInit /\ [][ClassifyNext]_vars

\* Shapes of a window: narrower than the panel, exactly as wide, ordinary,
\* and fullscreen (covering the screen)
WindowShapes ==
  { [width |-> 300, fullscreen |-> FALSE],
    [width |-> PanelWidth, fullscreen |-> FALSE],
    [width |-> 1000, fullscreen |-> FALSE],
    [width |-> ScreenWidth, fullscreen |-> TRUE] }

\* The chart is linked and no call is running; the Heidi window and the
\* EMR inbox have any of the shapes, any application is frontmost.  The
\* panel is toggled while the user changes focus.
PushInit ==
  /\ AgentInit /\ MergeIdle
  /\ mainWindow = TRUE
  /\ panelShown = FALSE
  /\ iconShown = TRUE
  /\ isPanelVisible = FALSE
  /\ savedWindowBounds = NullBounds
  /\ savedHeidiBounds = NullBounds
  /\ savedEmrBounds = NullBounds
  /\ hasPushedWindow = FALSE
  /\ linkedEmrWindow = [appName |-> EmrApp, windowTitle |-> ChartTitle]
  /\ lastKnownHeidiContext = FALSE
  /\ tasks = EmptyBag
  /\ scriptFailures = 0
  /\ panelCalls = 0
  /\ frontApp \in Apps
  /\ \E h \in WindowShapes, i \in WindowShapes :
       windows = [InitialWindows EXCEPT
                    !["heidi"].width = h.width,
                    !["heidi"].x = IF h.fullscreen THEN 0 ELSE @,
                    !["heidi"].height = IF h.fullscreen THEN ScreenHeight ELSE @,
                    !["heidi"].fullscreen = h.fullscreen,
                    !["inbox"].width = i.width,
                    !["inbox"].x = IF i.fullscreen THEN 0 ELSE @,
                    !["inbox"].y = IF i.fullscreen THEN 0 ELSE @,
                    !["inbox"].height = IF i.fullscreen THEN ScreenHeight ELSE @,
                    !["inbox"].fullscreen = i.fullscreen]
PushNext ==
  \/ TogglePanelCall \/ ToggleCanOpen \/ ToggleHeidiPushed \/ ToggleEmrPushed
  \/ ToggleFrontPushed \/ SlideInEnds \/ FocusChange
PushSpec == PushInit /\ [][PushNext]_vars

----------------------------------------------------------------------------
(* Properties *)

InFlightPastes ==
  {c \in BagToSet(pastes) : PasteInFlight(c)}
InFlightPasteCount ==
  LET S == InFlightPastes
      RECURSIVE Sum(_)
      Sum(T) == IF T = {} THEN 0
                ELSE LET c == CHOOSE x \in T : TRUE
                     IN CopiesIn(c, pastes) + Sum(T \ {c})
  IN Sum(S)

InFlightCaptureCount(bag) ==
  CopiesIn(CaptureCall("capture", "pending"), bag)
    + CopiesIn(CaptureCall("extract", "pending"), bag)
FailedCaptures(bag) == CopiesIn(CaptureCall("returned", "false"), bag)
SucceededCaptures(bag) == CopiesIn(CaptureCall("returned", "true"), bag)

\* C1: in every reachable state of the agent, currentIndex lies in
\* [0, max(0, len(sessionFields) - 1)].
C1_ClampInvariant ==
  /\ agentState.currentIndex >= 0
  /\ agentState.currentIndex <=
       (IF Len(agentState.sessionFields) = 0 THEN 0
        ELSE Len(agentState.sessionFields) - 1)

\* C1 witness: the selection was moved to the last of several fields.
C1_Witness ==
  /\ Len(agentState.sessionFields) >= 2
  /\ agentState.currentIndex = Len(agentState.sessionFields) - 1

\* C2: merging the same incoming list a second time changes nothing.
C2_MergeIdempotent == mPc = "twice" => mTwice = mOnce

\* C3: existing ids pairwise distinct implies merged ids pairwise distinct,
\* whatever the incoming list.
C3_MergeKeepsIdsUnique ==
  (mPc \in {"once", "twice"} /\ UniqueIds(mExisting)) => UniqueIds(mOnce)

\* C4: a step in which a capture call fails (capture or extraction) leaves
\* sessionFields and currentIndex as they were, sets status "error" and
\* lastError, and the call returns success=false.
CaptureFailureStep ==
  /\ InFlightCaptureCount(captures') < InFlightCaptureCount(captures)
  /\ SucceededCaptures(captures') = SucceededCaptures(captures)

C4_CaptureFailureAtomic ==
  [][ CaptureFailureStep =>
        /\ agentState'.sessionFields = agentState.sessionFields
        /\ agentState'.currentIndex = agentState.currentIndex
        /\ agentState'.status = "error"
        /\ agentState'.lastError # Undefined
        /\ FailedCaptures(captures') = FailedCaptures(captures) + 1 ]_vars

\* C4 witness: a capture has failed while the session held fields.
C4_Witness ==
  /\ FailedCaptures(captures) > 0
  /\ Len(agentState.sessionFields) > 0
  /\ agentState.status = "error"
  /\ agentState.lastError \in {CaptureError, ExtractionError}

\* C5: a pasteCurrentField call arriving while another is in flight is
\* rejected before it touches the clipboard, so at most one call is ever
\* between its clipboard write and its clipboard restore.
C5_PasteSingleInFlight == InFlightPasteCount <= 1

\* C6: a call that wrote the field value to the clipboard has written the
\* saved clipboard text back by the time it ends, whether the keystroke
\* succeeded or threw.
C6_PasteRestoresClipboard ==
  \A c \in BagToSet(pastes) :
    (c.wrote /\ c.pc \in {"done", "threw"}) => c.restored = <<c.previousText>>

\* C6 witness: a call whose keystroke threw has ended, and the clipboard
\* holds the text saved by that call.
C6_Witness ==
  \E c \in BagToSet(pastes) :
    /\ c.wrote /\ c.keyFailed /\ c.pc = "threw"
    /\ clipboard = c.previousText

----------------------------------------------------------------------------
(* Window push and restore, checked under PanelSpec *)

Geometry(w) == <<w.x, w.y, w.width, w.height>>
Quiescent == tasks = EmptyBag
NothingSaved ==
  /\ savedWindowBounds = NullBounds
  /\ savedHeidiBounds = NullBounds
  /\ savedEmrBounds = NullBounds

\* C7: whenever pushFrontmostWindow resizes a window, restoreFrontmostWindow
\* called with the bounds it returned puts that same window back to the
\* position and size it had before the push.
C7_PushRestoreRoundTrip ==
  LET target == PushFrontmostTarget(windows, frontApp)
  IN target # "none" =>
       Geometry(RestoreFrontmostScript(PushWindow(windows, target),
                                       BoundsOf(windows[target]))[target])
         = Geometry(windows[target])

\* C8: once the panel has been opened and closed again, with no osascript
\* run rejected, no window closed and the link kept, every window has the
\* position and size it had before the panel was opened.
C8_CloseRestoresGeometry ==
  (/\ Quiescent /\ ~isPanelVisible /\ ~hasPushedWindow
   /\ scriptFailures = 0 /\ DOMAIN windows = WindowIds
   /\ linkedEmrWindow # NoLink)
    => \A id \in DOMAIN windows :
         Geometry(windows[id]) = Geometry(InitialWindows[id])

\* C9: whenever the panel is closed and no toggle, watcher or link step is
\* in progress, hasPushedWindow is false and no saved bounds remain.
C9_ClosedMeansRestored ==
  (Quiescent /\ ~isPanelVisible) => (~hasPushedWindow /\ NothingSaved)

\* C10: a togglePanel call that arrives while another one is opening the
\* panel returns without pushing: at no time are two togglePanel calls both
\* between the gate of lines 1237-1250 and the end of their slide-in.
Opening(t) ==
  /\ t.kind = "toggle"
  /\ t.pc \in {"pushHeidi", "pushEmr", "pushFront", "pushFrontOnly", "slideIn"}
C10_SecondToggleIsNoOp ==
  \A t \in BagToSet(tasks) :
    Opening(t) =>
      /\ CopiesIn(t, tasks) = 1
      /\ \A u \in BagToSet(tasks) : Opening(u) => u = t

----------------------------------------------------------------------------
(* The gate of togglePanel, checked under PanelSpec *)

\* canOpenMainPanel for the window that is frontmost now
FrontmostCanOpen ==
  /\ FrontmostHasWindow(windows, frontApp)
  /\ \/ IsOurApp(frontApp)
     \/ isHeidiWindow(frontApp, FrontmostTitle(windows, frontApp))
     \/ matchesLinkedEmrWindow(linkedEmrWindow, frontApp,
                               FrontmostTitle(windows, frontApp))

\* A togglePanel call resumes after its await of canOpenMainPanel
ToggleGateStep ==
  \E t \in Running("canOpen") : CopiesIn(t, tasks') < CopiesIn(t, tasks)
\* A togglePanel call made with nothing linked returns in the same step
UnlinkedToggleStep ==
  linkedEmrWindow = NoLink /\ panelCalls' # panelCalls /\ tasks' = tasks
NoNewOpening ==
  \A u \in BagToSet(tasks') :
    Opening(u) => CopiesIn(u, tasks') <= CopiesIn(u, tasks)

DocumentedCanOpen ==
  /\ FrontmostHasWindow(windows, frontApp)
  /\ \/ isHeidiWindow(frontApp, FrontmostTitle(windows, frontApp))
     \/ matchesLinkedEmrWindow(linkedEmrWindow, frontApp,
                               FrontmostTitle(windows, frontApp))
     \/ IsOurApp(frontApp) /\ lastKnownHeidiContext
     \/ IsOurApp(frontApp) /\ linkedEmrWindow # NoLink

\* C12: a togglePanel call that reaches its gate while the panel is closed,
\* its frontmost query not rejected, starts opening the panel exactly when
\* the documented gate holds for the frontmost window, linked or not.
C12_OpensExactlyWhenGateHolds ==
  [][ (/\ ~isPanelVisible
       /\ scriptFailures' = scriptFailures
       /\ ToggleGateStep \/ UnlinkedToggleStep)
      => (DocumentedCanOpen <=> ~NoNewOpening) ]_vars


\* A watcher call that has its frontmost-window answer in this step
PollReadsFrontmost ==
  \E t \in Running("frontmost") :
    t.kind = "watcher" /\ CopiesIn(t, tasks') < CopiesIn(t, tasks)

\* A watcher call that decides in this step to close the open panel
WatcherStartsClosing ==
  \E t \in Running("frontmost") :
    /\ t.kind = "watcher"
    /\ CopiesIn(t, tasks') < CopiesIn(t, tasks)
    /\ CopiesIn([t EXCEPT !.pc = "slideOut"], tasks')
         > CopiesIn([t EXCEPT !.pc = "slideOut"], tasks)

\* C13: the watcher does not close the open panel on a single poll that
\* reports canOpen=false.  lastKnownHeidiContext is TRUE exactly when
\* the last poll that saw an external window saw Heidi frontmost, a
\* poll that reported canOpen=true; so a poll may start closing the
\* panel only when lastKnownHeidiContext is FALSE.
C13_NoCloseOnSinglePoll ==
  [][ WatcherStartsClosing => ~lastKnownHeidiContext ]_vars

\* A watcher poll that begins and returns in one step because the panel
\* is visible (lines 1647-1656): no call is left in flight
PollReturnsEarly ==
  isPanelVisible /\ panelCalls' # panelCalls /\ tasks' = tasks

\* The frontmost window is external and neither Heidi nor the linked
\* EMR window: a poll that looks at it computes canOpen = false
FrontmostCannotOpen ==
  /\ FrontmostHasWindow(windows, frontApp)
  /\ ~IsOurApp(frontApp)
  /\ ~isHeidiWindow(frontApp, FrontmostTitle(windows, frontApp))
  /\ ~matchesLinkedEmrWindow(linkedEmrWindow, frontApp,
                             FrontmostTitle(windows, frontApp))

\* C14: two consecutive polls that report canOpen=false close the open
\* panel.  A poll can report canOpen=false only if it looks at the
\* frontmost window, so a poll made while the panel is open, nothing
\* else is running and the frontmost window cannot open the panel must
\* not return without a frontmost query.
C14_OpenPanelIsPolled ==
  [][ (Quiescent /\ FrontmostCannotOpen) => ~PollReturnsEarly ]_vars

\* The watcher call that leaves its null-branch slide-out in this step
NullCloseEnds ==
  \E t \in Running("slideOutNull") : CopiesIn(t, tasks') < CopiesIn(t, tasks)

DocumentedHeidiContext ==
  IF ~FrontmostHasWindow(windows, frontApp) THEN lastKnownHeidiContext
  ELSE IF isHeidiWindow(frontApp, FrontmostTitle(windows, frontApp)) THEN TRUE
  ELSE IF IsOurApp(frontApp) THEN lastKnownHeidiContext
  ELSE FALSE

\* C16: after every watcher poll, with the panel open or closed,
\* lastKnownHeidiContext is true if Heidi is frontmost, unchanged if an
\* own window is frontmost or the query gave nothing, and false if
\* another external window is frontmost.
C16_StickyFlagRule ==
  [][ (PollReadsFrontmost \/ PollReturnsEarly)
        => lastKnownHeidiContext' =
             IF scriptFailures' # scriptFailures THEN lastKnownHeidiContext
             ELSE DocumentedHeidiContext ]_vars

\* Case-insensitive substring containment in either direction
ContainsEitherWay(title, stored) ==
  \/ Includes(ToLowerCase(title), ToLowerCase(stored))
  \/ Includes(ToLowerCase(stored), ToLowerCase(title))

\* C17: a frontmost window of the linked application is the linked
\* target exactly when its title and the stored title contain one
\* another, case ignored.  The watcher shows the floating icon for the
\* linked target and hides it for any other EMR window while the panel
\* is closed, so a poll that reads an EMR window leaves the icon shown
\* exactly when the titles are so related.
C17_LinkedTargetByContainment ==
  [][ (/\ PollReadsFrontmost
       /\ ~isPanelVisible
       /\ frontApp = EmrApp
       /\ linkedEmrWindow # NoLink
       /\ scriptFailures' = scriptFailures)
      => (iconShown' <=>
            ContainsEitherWay(FrontmostTitle(windows, frontApp),
                              linkedEmrWindow.windowTitle)) ]_vars

\* C18: no call made from a shortcut or IPC handler ends with an
\* exception that reaches the handler: no pasteCurrentField call has
\* ended by throwing.
C18_NoExceptionEscapes ==
  \A c \in BagToSet(pastes) : c.pc # "threw"

\* C19: selectPreviousField and selectNextField on an empty session are
\* no-ops: status, lastError and currentIndex are left as they were.
C19_SelectOnEmptyIsNoOp ==
  [][ (/\ Len(agentState.sessionFields) = 0
       /\ selectPreviousField \/ selectNextField)
      => /\ agentState'.status = agentState.status
         /\ agentState'.lastError = agentState.lastError
         /\ agentState'.currentIndex = agentState.currentIndex ]_vars

\* A step of a pasteCurrentField call
PasteStep ==
  PasteStart \/ PasteTimer \/ PasteKeystroke \/ PasteLanded \/ PasteRestore

PasteSuccessStep == PasteRestore /\ agentState'.status = "idle"

\* C21: after a successful paste the selection advances to the next
\* field: currentIndex is one greater than before unless the last field
\* was selected.
C21_PasteAdvances ==
  [][ PasteSuccessStep
        => agentState'.currentIndex =
             IF agentState.currentIndex >= Len(agentState.sessionFields) - 1
             THEN agentState.currentIndex
             ELSE agentState.currentIndex + 1 ]_vars

\* new keeps old: same id and label, and the value either kept or
\* continued after a paragraph separator
KeepsField(old, new) ==
  /\ new.id = old.id
  /\ new.label = old.label
  /\ \/ new.value = old.value
     \/ /\ Len(new.value) >= Len(old.value) + Len(Separator)
        /\ SubSeq(new.value, 1, Len(old.value) + Len(Separator))
             = old.value \o Separator
KeepsFields(old, new) ==
  /\ Len(new) >= Len(old)
  /\ \A i \in 1..Len(old) : KeepsField(old[i], new[i])

\* C22: mergeSessionFields never deletes or reorders existing fields:
\* every existing field is at its position in the result with its id and
\* label, and its value is unchanged or continued after a paragraph
\* separator; this for the first merge and for the merge into its result.
C22_MergeKeepsExisting ==
  /\ mPc \in {"once", "twice"} => KeepsFields(mExisting, mOnce)
  /\ mPc = "twice" => KeepsFields(mOnce, mTwice)

\* C23: one incoming field with an existing id and a value that does not
\* overlap is appended after a paragraph separator exactly when it is at
\* least half as long as the existing value, the exact half included;
\* otherwise the existing list is unchanged.
C23_ContinuationFromHalf ==
  (/\ mPc \in {"once", "twice"}
   /\ Len(mIncoming) = 1
   /\ HasId(mExisting, mIncoming[1].id)
   /\ ~valuesOverlap(ExistingById(mExisting, mIncoming[1].id).value,
                     mIncoming[1].value))
  => LET j == FindIndex(mExisting, mIncoming[1].id)
         old == mExisting[j].value
     IN mOnce =
          [mExisting EXCEPT ![j].value =
             IF 2 * Len(mIncoming[1].value) >= Len(old)
             THEN old \o Separator \o mIncoming[1].value
             ELSE old]

\* Either value contains the other (case ignored) or the token
\* similarity is at least one half
OverlapByContainmentOrTokens(v1, v2) ==
  \/ Includes(ToLowerCase(v1), ToLowerCase(v2))
  \/ Includes(ToLowerCase(v2), ToLowerCase(v1))
  \/ 2 * Cardinality(Tokens(v1) \cap Tokens(v2))
       >= Cardinality(Tokens(v1) \cup Tokens(v2))

\* C24: an existing field is left unchanged, and nothing is added under
\* its id, when every incoming field of that id overlaps it: one value
\* contains the other or the token similarity is at least one half.
C24_OverlapIsDiscarded ==
  mPc \in {"once", "twice"} =>
    \A j \in 1..Len(mExisting) :
      (\A k \in 1..Len(mIncoming) :
          mIncoming[k].id = mExisting[j].id =>
            OverlapByContainmentOrTokens(mExisting[j].value, mIncoming[k].value))
      => /\ mOnce[j] = mExisting[j]
         /\ Cardinality({i \in 1..Len(mOnce) : mOnce[i].id = mExisting[j].id}) = 1

\* The step in which a capture call returns success
CaptureSuccessStep ==
  SucceededCaptures(captures') > SucceededCaptures(captures)

PushFrontmostCalled ==
  \E t \in BagToSet(tasks') :
    t.pc = "pushFront" /\ CopiesIn(t, tasks') > CopiesIn(t, tasks)

\* The candidate of pushFrontmostWindow is fullscreen or narrower than the
\* panel: with an own window frontmost, the largest other window that is
\* wide enough is fullscreen; otherwise every window of the frontmost
\* process is fullscreen or narrower than the panel.
CandidateIsSkippable ==
  IF IsOurApp(frontApp)
  THEN LET wide == {id \in DOMAIN windows :
                      ~IsOurApp(windows[id].app) /\ windows[id].width > PanelWidth}
       IN /\ wide # {}
          /\ windows[LargestOf(windows, wide)].fullscreen
          /\ \A id \in wide :
               (\A other \in wide : windows[id].width >= windows[other].width)
                 => windows[id].fullscreen
  ELSE /\ WindowIdsOf(windows, frontApp) # {}
       /\ \A id \in WindowIdsOf(windows, frontApp) :
            windows[id].fullscreen \/ windows[id].width < PanelWidth

\* C26: pushFrontmostWindow returns null and moves or resizes no window
\* whenever its candidate is fullscreen or narrower than the panel (no
\* script run having failed).
C26_SkipsFullscreenAndNarrow ==
  [][ (PushFrontmostCalled /\ CandidateIsSkippable /\ scriptFailures' = 0)
        => /\ windows' = windows
           /\ \A t \in BagToSet(tasks') : t.pc = "pushFront" => t.res = NullBounds
    ]_vars

\* The heidi script of pushLinkedWindows, rejected, is left in this step
HeidiPushFailedStep ==
  \E t \in Running("pushHeidi") :
    t.failed /\ CopiesIn(t, tasks') < CopiesIn(t, tasks)

\* The emr script of pushLinkedWindows is started in this step
EmrPushAttempted ==
  \E u \in BagToSet(tasks') :
    u.pc = "pushEmr" /\ CopiesIn(u, tasks') > CopiesIn(u, tasks)

\* C27: the Heidi window and the linked EMR window are pushed
\* independently: when the script that pushes the Heidi window fails and
\* a window is still linked, the push of the EMR window is attempted.
C27_PushesAreIndependent ==
  [][ (HeidiPushFailedStep /\ linkedEmrWindow # NoLink) => EmrPushAttempted ]_vars

\* A pasteCurrentField call begins with nothing to paste: the session is
\* empty or the selected field has an empty value
NothingToPaste ==
  \/ Len(agentState.sessionFields) = 0
  \/ agentState.sessionFields[
       clampIndex(agentState.currentIndex, Len(agentState.sessionFields)) + 1
     ].value = <<>>

\* C28: pasteCurrentField with an empty session or an empty selected
\* value ends at once with status "error" and lastError set; the
\* clipboard is neither read nor written and no keystroke is pending.
C28_NothingToPasteFails ==
  [][ (PasteStart /\ NothingToPaste)
        => /\ agentState'.status = "error"
           /\ agentState'.lastError # Undefined
           /\ clipboard' = clipboard
           /\ \A c \in BagToSet(pastes') :
                CopiesIn(c, pastes') > CopiesIn(c, pastes)
                  => /\ ~PasteInFlight(c)
                     /\ ~c.wrote
                     /\ c.previousText = <<>> ]_vars

\* C28 witness: a paste on the empty session has ended, nothing was
\* written and the error is reported.
C28_Witness ==
  /\ Len(agentState.sessionFields) = 0
  /\ agentState.status = "error"
  /\ agentState.lastError = NoFieldsError
  /\ pastes = SetToBag({PasteCall("threw", <<>>, FALSE, FALSE, <<>>)})
  /\ captures = EmptyBag
  /\ clipboard = <<"x">>

\* A pasteCurrentField call returns normally in this step, its keystroke
\* having succeeded
PasteDoneStep ==
  \E c \in BagToSet(pastes') :
    c.pc = "done" /\ CopiesIn(c, pastes') > CopiesIn(c, pastes)

\* C29: every error is recoverable by retrying: a captureAndEnrich or a
\* pasteCurrentField whose external calls succeed completes with status
\* "idle" and lastError cleared, whatever failed before it ended.
C29_SuccessClearsError ==
  [][ (PasteDoneStep \/ CaptureSuccessStep)
        => /\ agentState'.status = "idle"
           /\ agentState'.lastError = Undefined ]_vars

\* C30: every change of the agent state is broadcast: whenever the
\* handlers have yielded, the state last sent to the listeners equals
\* the agent state in every field, sessionId included.
C30_EveryChangeIsBroadcast ==
  \A k \in DOMAIN agentState : lastBroadcast[k] = agentState[k]

\* The other applications' windows wider than the panel, and among them
\* the widest, the larger area deciding between equally wide ones
WideOtherWindows ==
  {id \in DOMAIN windows :
     ~IsOurApp(windows[id].app) /\ windows[id].width > PanelWidth}
WidestOtherWindows ==
  {id \in WideOtherWindows :
     \A other \in WideOtherWindows :
       \/ windows[id].width > windows[other].width
       \/ /\ windows[id].width = windows[other].width
          /\ Area(windows[id]) >= Area(windows[other])}

\* C31: with an own window frontmost, pushFrontmostWindow pushes the
\* widest of the other windows wider than the panel (larger area only
\* between equally wide ones) and returns that window's bounds.
C31_PushesWidestWindow ==
  [][ (/\ PushFrontmostCalled
       /\ IsOurApp(frontApp)
       /\ WideOtherWindows # {}
       /\ scriptFailures' = 0)
      => \E id \in WidestOtherWindows :
           /\ windows' = PushWindow(windows, id)
           /\ \A t \in BagToSet(tasks') :
                t.pc = "pushFront" => t.res = BoundsOf(windows[id]) ]_vars

\* A validateLinkedEmrWindow call has its window list in this step
ValidateStep ==
  \E t \in Running("validate") : CopiesIn(t, tasks') < CopiesIn(t, tasks)

\* Some listed window of the linked application has a title that
\* contains the linked title or is contained in it
LinkedWindowListed ==
  \E id \in ListedWindows(windows) :
    /\ windows[id].app = linkedEmrWindow.appName
    /\ \/ Includes(windows[id].title, linkedEmrWindow.windowTitle)
       \/ Includes(linkedEmrWindow.windowTitle, windows[id].title)

C33_OpenOnlyWhileLinked ==
  isPanelVisible => linkedEmrWindow # NoLink

\* C34: once every started pasteCurrentField call has completed, the
\* clipboard holds the text it held before the first of them began (only
\* pastes write the clipboard, so that is its initial text).
C34_ClipboardSurvivesOverlap ==
  (\A c \in BagToSet(pastes) : ~PasteInFlight(c)) => clipboard = <<"x">>

\* C35: overlapping captures lose no update: each successful capture
\* stores the merge of its extraction result into the session fields as
\* they are when it completes, so the final list is the merge of the
\* results one after the other in completion order.
C35_CapturesMergeInOrder ==
  [][ CaptureSuccessStep
        => \E incomingFields \in ExtractionResults :
             agentState'.sessionFields =
               mergeSessionFields(agentState.sessionFields, incomingFields)
    ]_vars

\* C35 witness: two captures have succeeded and a field holds the first
\* result continued by the second; a third capture, begun before the
\* second completed (the status is "idle" again), is still in flight.
C35_Witness ==
  /\ SucceededCaptures(captures) = 2
  /\ InFlightCaptureCount(captures) = 1
  /\ pastes = EmptyBag
  /\ agentState.status = "idle"
  /\ \E i \in 1..Len(agentState.sessionFields) :
       Includes(agentState.sessionFields[i].value, Separator)

\* C36: a capture that was in flight when the session was cleared puts
\* no fields back.  sessionId is unset by clearSession only and set again
\* when a capture starts, so a capture that completes while sessionId is
\* unset was in flight at the clear, and must leave the session empty.
C36_ClearWinsOverCapture ==
  [][ (CaptureSuccessStep /\ agentState.sessionId = Undefined)
        => agentState'.sessionFields = <<>> ]_vars

\* C37: a session with fields has a session id.
C37_FieldsImplySessionId ==
  Len(agentState.sessionFields) > 0 => agentState.sessionId # Undefined

\* C38: status is "idle" only when no capture and no paste is in flight.
C38_IdleMeansNothingInFlight ==
  agentState.status = "idle"
    => /\ InFlightCaptureCount(captures) = 0
       /\ \A c \in BagToSet(pastes) : ~PasteInFlight(c)

\* C39: the main panel and the floating icon are never shown together:
\* while the panel is visible the icon is hidden.
C39_IconHiddenWhileOpen ==
  isPanelVisible => ~iconShown


----------------------------------------------------------------------------
(* Reopening the panel after its window was closed, checked under
   ReopenSpec *)

\* main.ts:1439-1441: the user closes the panel window while it is on
\* screen; the "closed" handler sets mainWindow = null and nothing else
MainWindowClosed ==
  /\ mainWindow /\ panelShown
  /\ Commit([PanelState EXCEPT !.mainWindow = FALSE, !.panelShown = FALSE])

\* The chart is linked and no call is running; any application is
\* frontmost.  The panel is toggled while the user changes focus and may
\* close the panel window.
ReopenInit ==
  /\ AgentInit /\ MergeIdle
  /\ mainWindow = TRUE
  /\ panelShown = FALSE
  /\ iconShown = TRUE
  /\ isPanelVisible = FALSE
  /\ savedWindowBounds = NullBounds
  /\ savedHeidiBounds = NullBounds
  /\ savedEmrBounds = NullBounds
  /\ hasPushedWindow = FALSE
  /\ linkedEmrWindow = [appName |-> EmrApp, windowTitle |-> ChartTitle]
  /\ lastKnownHeidiContext = FALSE
  /\ tasks = EmptyBag
  /\ scriptFailures = 0
  /\ panelCalls = 0
  /\ windows = InitialWindows
  /\ frontApp \in Apps
ReopenNext ==
  \/ TogglePanelCall \/ ToggleCanOpen \/ ToggleHeidiPushed \/ ToggleEmrPushed
  \/ ToggleFrontPushed \/ SlideInEnds \/ SlideOutEnds
  \/ RestoreHeidiEnds \/ RestoreEmrEnds \/ RestoreFrontEnds
  \/ FocusChange \/ MainWindowClosed
ReopenSpec == ReopenInit /\ [][ReopenNext]_vars

\* C40: the panel can always be opened again.  A togglePanel call that
\* passes its gate in a valid context while the panel window is destroyed
\* takes the show branch: it recreates the window and starts opening.
C40_ToggleReopens ==
  [][ (/\ ToggleGateStep
       /\ ~mainWindow
       /\ FrontmostCanOpen
       /\ scriptFailures' = 0)
      => \E u \in BagToSet(tasks') :
           Opening(u) /\ CopiesIn(u, tasks') > CopiesIn(u, tasks) ]_vars

\* The state the closed handler leaves behind when the panel was open and
\* no slide-out is running
PanelLost ==
  /\ ~mainWindow /\ isPanelVisible
  /\ Running("slideOut") \cup Running("slideOutNull") = {}
\* Once lost, the panel stays lost and is never shown
C40_LostForGood ==
  [][ PanelLost => PanelLost' /\ ~panelShown' ]_vars

============================================================================
